---- MODULE Spec2Model ----
(***************************************************************************)
(* BB84 protocol-simulation engine: run_bb84 of src/bb84_simulator.py.     *)
(* One call of run_bb84 is a sequence of steps (prologue, per-qubit        *)
(* channel steps, sifting, error estimation, return); the caller may call  *)
(* again after a call has returned or raised.  The Simulator page          *)
(* (section_simulator) is the caller that converts the seed field, calls   *)
(* run_bb84 and renders the final key block.                               *)
(***************************************************************************)
EXTENDS Integers, Sequences, FiniteSets, TLC

VARIABLES QISKIT_OK, num_bits, eve_present, seed, pc, rng, alice_bits,
          alice_bases, qubits, bob_bases, bob_bits, eve_bits, eve_bases, i,
          qc, sifted_alice_bits, sifted_bob_bits, sample_indices,
          error_rate, final_key, rng2, result, prev, np_global, entered,
          shown

vars == <<QISKIT_OK, num_bits, eve_present, seed, pc, rng, alice_bits,
          alice_bases, qubits, bob_bases, bob_bits, eve_bits, eve_bases, i,
          qc, sifted_alice_bits, sifted_bob_bits, sample_indices,
          error_rate, final_key, rng2, result, prev, np_global, entered,
          shown>>

\* ---------------------------------------------------------------- bounds
\* largest num_bits the caller passes in the full-run specification
MaxBits == 2
\* largest integer seed the caller passes
MaxSeed == 1
\* largest num_bits of the runs followed from the end of the channel loop
MaxLong == 120
\* most draws from the process-wide numpy generator that are followed
MaxDraws == 3
\* most steps above its minimum that the slider of the page is moved in the
\* runs followed from the page
MaxSteps == 1

\* ------------------------------------------------------------- constants
\* Optional[int] seed: None is encoded as -1 (default_rng rejects negative
\* integers, so -1 is not a seed a run can have)
None == -1
\* the cap of the error sample
SampleCap == 10
\* the divisor of the error sample (20% of the sifted key)
SampleDiv == 5

Bit == {0, 1}
Bases == {"+", "x"}
Seeds == {None} \cup (0 .. MaxSeed)
IntSeeds == 0 .. MaxSeed

\* ------------------------------------------------------ random generators
\* A numpy Generator is a deterministic function of its seed and of the
\* number of values drawn so far.  Stream stands for the bit stream of
\* PCG64 seeded with s: a fixed function of (s, k).
Stream(s, k) ==
    LET x == ((k + 1) * (k + 1) * 1237 + (s + 1) * (k + 3) * 7001) % 65537
    IN  (x \div 64) % 2

\* a generator that drops its seed argument and is seeded from OS entropy
default_rng_entropy(s) == [seed |-> None, pos |-> 0]

\* np.random.default_rng(seed)
default_rng(s) == [seed |-> s, pos |-> 0]

\* the generator after n more values have been drawn
Advance(g, n) == [g EXCEPT !.pos = @ + n]

\* the values the k-th next draw of g may return: any bit for a generator
\* seeded from OS entropy, the stream's bit for a seeded one
DrawSet(g, k) == IF g.seed = None THEN Bit ELSE {Stream(g.seed, g.pos + k)}

\* the sequences of n bits a batch draw of g may return
BatchSet(g, n) ==
    IF g.seed = None THEN [1 .. n -> Bit]
    ELSE {[k \in 1 .. n |-> Stream(g.seed, g.pos + k - 1)]}

\* _random_bits: rng.integers(0, 2, size=n)
_random_bits(n, g) == BatchSet(g, n)

\* rng.random() < 0.5 picks '+', otherwise 'x'; u = 1 stands for "< 0.5"
BasisOf(u) == IF u = 1 THEN "+" ELSE "x"

\* _random_bases: np.where(rng.random(n) < 0.5, '+', 'x')
_random_bases(n, g) == {[k \in 1 .. n |-> BasisOf(u[k])] : u \in BatchSet(g, n)}

\* ------------------------------------------------------------ the qubit
\* A one-qubit circuit built from X and H on |0> is in one of four states.
QStates == {"0", "1", "+", "-"}

\* qc.x(0), applied to a computational state
X(s) == CASE s = "0" -> "1" [] s = "1" -> "0" [] OTHER -> s

\* qc.h(0)
H(s) == CASE s = "0" -> "+" [] s = "1" -> "-" [] s = "+" -> "0" [] OTHER -> "1"

\* a preparation that leaves out the h of the diagonal basis
Prepare_nobasis(bit, basis) == IF bit = 1 THEN X("0") ELSE "0"

\* QuantumCircuit(1); x if bit == 1; h if basis == 'x'
Prepare(bit, basis) ==
    LET a == IF bit = 1 THEN X("0") ELSE "0"
    IN  IF basis = "x" THEN H(a) ELSE a

\* a measurement that leaves out the h of the diagonal basis
Rotate_none(s, basis) == s

\* if basis == 'x': qc.h(0)   (rotation before measure_all)
Rotate(s, basis) == IF basis = "x" THEN H(s) ELSE s

\* a measurement that ignores the state and always returns the coin
MeasureAll_coin(s, c) == c

\* qc.measure_all(); one shot of the simulator.  c is the simulator's own
\* coin, used only when the state is a superposition.
MeasureAll(s, c) == CASE s = "0" -> 0 [] s = "1" -> 1 [] OTHER -> c

\* fallback: Bob gets Alice's bit when the bases match, else a coin of the
\* process-wide numpy generator
FallbackBit(abit, abasis, bbasis, c) == IF abasis = bbasis THEN abit ELSE c


\* One pass of the channel loop for one qubit (lines 264-297): the bit Bob
\* appends when Eve's basis is ebasis, her shot's coin c1 and Bob's coin c2.
\* q is QISKIT_OK, e is eve_present.
ChannelBit(q, e, abit, abasis, bbasis, ebasis, c1, c2) ==
    IF q
    THEN IF e
         THEN LET eve_bit == MeasureAll(Rotate(Prepare(abit, abasis), ebasis), c1)
              IN  MeasureAll(Rotate(Prepare(eve_bit, ebasis), bbasis), c2)
         ELSE MeasureAll(Rotate(Prepare(abit, abasis), bbasis), c2)
    ELSE FallbackBit(abit, abasis, bbasis, c2)

\* ------------------------------------------------------- steps 4 and 5
\* a sifting loop whose test is inverted: it keeps the positions whose bases
\* differ
SiftLoop_differ(bits, abases, bbases) ==
    LET Differ(k) == abases[k] # bbases[k]
        kept == SelectSeq([k \in 1 .. Len(abases) |-> k], Differ)
    IN  [j \in 1 .. Len(kept) |-> bits[kept[j]]]

\* Step 4: the loop over range(num_bits) that appends, in the order of the
\* positions, the bits of the positions whose bases match
Positions(n) == [k \in 1 .. n |-> k]
SiftLoop(bits, abases, bbases) ==
    LET Match(k) == abases[k] = bbases[k]
        kept == SelectSeq(Positions(Len(abases)), Match)
    IN  [j \in 1 .. Len(kept) |-> bits[kept[j]]]

\* a Step 5 without the test for an empty sifted key
HasSifted_always(L) == TRUE

\* if len(sifted_alice_bits) > 0
HasSifted(L) == L > 0

Min(a, b) == IF a < b THEN a ELSE b
Max(a, b) == IF a > b THEN a ELSE b

\* a sample size without the lower limit of one position
SampleSize_nomax(L) == Min(L \div SampleDiv, SampleCap)

\* sample_size = min(max(1, len(sifted) // 5), 10)
SampleSize(L) == Min(Max(1, L \div SampleDiv), SampleCap)

\* a sampling seed without the offset: the seed of the primary generator
Seed2_same(s) == s

\* seed + 1 if seed is not None else None
Seed2(s) == IF s # None THEN s + 1 ELSE None

\* an integer below m taken from the j-th byte of the stream of seed s
Below(s, j, m) ==
    LET byte == Stream(s, 8 * j) + 2 * Stream(s, 8 * j + 1)
              + 4 * Stream(s, 8 * j + 2) + 8 * Stream(s, 8 * j + 3)
              + 16 * Stream(s, 8 * j + 4) + 32 * Stream(s, 8 * j + 5)
              + 64 * Stream(s, 8 * j + 6) + 128 * Stream(s, 8 * j + 7)
    IN  byte % m

RemoveAt(q, k) == SubSeq(q, 1, k - 1) \o SubSeq(q, k + 1, Len(q))

\* a seeded draw of k indices without replacement: each drawn index leaves
\* the pool
RECURSIVE ChoiceLoop(_, _, _, _, _)
ChoiceLoop(s, pool, k, j, acc) ==
    IF j = k THEN acc
    ELSE LET r == Below(s, j, Len(pool)) + 1
         IN  ChoiceLoop(s, RemoveAt(pool, r), k, j + 1, Append(acc, pool[r]))

IsInjective(q) == \A a, b \in 1 .. Len(q) : q[a] = q[b] => a = b

\* a draw with replacement (replace=True): every index is drawn from the
\* whole range
Choice_replace(g, L, k) ==
    IF g.seed = None
    THEN [1 .. k -> 0 .. L - 1]
    ELSE {[j \in 1 .. k |-> Below(g.seed, j - 1, L)]}

\* rng2.choice(L, size=k, replace=False): the index lists the draw may
\* return; the empty set when numpy raises ValueError (k > L)
Choice(g, L, k) ==
    IF k > L THEN {}
    ELSE IF g.seed = None
         THEN {q \in [1 .. k -> 0 .. L - 1] : IsInjective(q)}
         ELSE {ChoiceLoop(g.seed, [n \in 1 .. L |-> n - 1], k, 0, <<>>)}

\* an error count taken over the whole sifted key instead of the sample
ErrorCount_all(idx, sa, sb, k) ==
    Cardinality({j \in 1 .. Len(sa) : sa[j] # sb[j]})

\* sum(1 for idx in sample_indices if sifted_alice[idx] != sifted_bob[idx])
RECURSIVE ErrorCount(_, _, _, _)
ErrorCount(idx, sa, sb, k) ==
    IF k > Len(idx) THEN 0
    ELSE (IF sa[idx[k] + 1] # sb[idx[k] + 1] THEN 1 ELSE 0)
         + ErrorCount(idx, sa, sb, k + 1)

RECURSIVE GCD(_, _)
GCD(a, b) == IF b = 0 THEN a ELSE GCD(b, a % b)

\* error_count / sample_size: the float is the value of the quotient, kept
\* as the fraction in lowest terms <<numerator, denominator>>
Quotient(a, b) == LET g == GCD(a, b) IN <<a \div g, b \div g>>
Zero == <<0, 1>>

SeqRange(q) == {q[k] : k \in 1 .. Len(q)}

\* a key filter that is off by one: it tests the 1-based position against
\* the 0-based sample
KeyLoop_offbyone(sa, idx) ==
    LET Kept(k) == k \notin SeqRange(idx)
        kept == SelectSeq([k \in 1 .. Len(sa) |-> k], Kept)
    IN  [j \in 1 .. Len(kept) |-> sa[kept[j]]]

\* a key filter that also drops the positions at which Bob's sifted bit
\* differs from Alice's
KeyLoop_agree(sa, idx) ==
    LET Kept(k) == (k - 1) \notin SeqRange(idx) /\ sifted_bob_bits[k] = sa[k]
        kept == SelectSeq(Positions(Len(sa)), Kept)
    IN  [j \in 1 .. Len(kept) |-> sa[kept[j]]]

\* [bit for i, bit in enumerate(sifted_alice) if i not in sample_indices]
KeyLoop(sa, idx) ==
    LET Kept(k) == (k - 1) \notin SeqRange(idx)
        kept == SelectSeq(Positions(Len(sa)), Kept)
    IN  [j \in 1 .. Len(kept) |-> sa[kept[j]]]

\* RunResult(alice_bits, alice_bases, bob_bits, bob_bases, sifted_alice_bits,
\*           sifted_bob_bits, final_key, error_rate, sample_indices)
RunResult ==
    [alice_bits |-> alice_bits, alice_bases |-> alice_bases,
     bob_bits |-> bob_bits, bob_bases |-> bob_bases,
     sifted_alice |-> sifted_alice_bits, sifted_bob |-> sifted_bob_bits,
     final_key |-> final_key, error_rate |-> error_rate,
     sample_indices |-> sample_indices]

\* ------------------------------------------------------------- the run
\* the process has imported the module (QISKIT_OK is fixed) and no call of
\* run_bb84 has been made
Init ==
    /\ QISKIT_OK \in BOOLEAN
    /\ num_bits = 0 /\ eve_present = FALSE /\ seed = None
    /\ pc = "idle"
    /\ rng = default_rng(None) /\ rng2 = <<>>
    /\ alice_bits = <<>> /\ alice_bases = <<>> /\ qubits = <<>>
    /\ bob_bases = <<>> /\ bob_bits = <<>>
    /\ eve_bits = <<>> /\ eve_bases = <<>>
    /\ i = 0 /\ qc = "none"
    /\ sifted_alice_bits = <<>> /\ sifted_bob_bits = <<>>
    /\ sample_indices = <<>> /\ error_rate = Zero /\ final_key = <<>>
    /\ result = <<>> /\ prev = <<>>
    /\ np_global = 0
    /\ entered = <<>> /\ shown = <<>>

\* a channel loop that takes the Exact branch whatever QISKIT_OK is
LoopHead_exact(k, n, e) ==
    IF k >= n THEN "sift"
    ELSE IF e THEN "eve" ELSE "bob"

\* a channel loop that stops one position early
LoopHead_short(k, n, e) ==
    IF k + 1 >= n THEN "sift"
    ELSE IF ~QISKIT_OK THEN "fallback"
    ELSE IF e THEN "eve" ELSE "bob"

\* the branch of the channel loop for position k (0-based), or the step
\* after the loop
LoopHead(k, n, e) ==
    IF k >= n THEN "sift"
    ELSE IF ~QISKIT_OK THEN "fallback"
    ELSE IF e THEN "eve" ELSE "bob"

\* the qubit the exact loop copies at position k: qubits[i].copy()
CopyQubit(qs, k, n) == IF QISKIT_OK /\ k < n THEN qs[k + 1] ELSE "none"

\* run_bb84(n, e, s) is entered (line 236): the arguments are bound and the
\* locals of the call do not exist yet.  prev keeps what the call just
\* before returned and drew for Eve (with its eve_present) when that call
\* had the same num_bits and the same integer seed.
run_bb84(n, e, s) ==
    /\ pc \in {"idle", "done", "raised"}
    /\ num_bits' = n /\ eve_present' = e /\ seed' = s
    /\ prev' = IF pc = "done" /\ s # None /\ <<num_bits, seed>> = <<n, s>>
               THEN <<[eve_present |-> eve_present, result |-> result[1],
                       eve_bases |-> eve_bases]>>
               ELSE <<>>
    /\ result' = <<>>
    /\ rng' = default_rng(None) /\ rng2' = <<>>
    /\ alice_bits' = <<>> /\ alice_bases' = <<>> /\ qubits' = <<>>
    /\ bob_bases' = <<>> /\ bob_bits' = <<>>
    /\ eve_bits' = <<>> /\ eve_bases' = <<>>
    /\ i' = 0 /\ qc' = "none"
    /\ sifted_alice_bits' = <<>> /\ sifted_bob_bits' = <<>>
    /\ sample_indices' = <<>> /\ error_rate' = Zero /\ final_key' = <<>>
    /\ pc' = "start"
    /\ UNCHANGED <<QISKIT_OK, np_global>>

\* lines 238-260: the generator, Alice's bits and bases, the prepared
\* qubits, Bob's bases.  A negative num_bits makes rng.integers raise.
Prologue ==
    /\ pc = "start"
    /\ IF num_bits < 0
       THEN /\ pc' = "raised"
            /\ rng' = default_rng(seed)
            /\ UNCHANGED <<alice_bits, alice_bases, qubits, bob_bases, qc>>
       ELSE \E ab \in _random_bits(num_bits, default_rng(seed)) :
            \E aB \in _random_bases(num_bits, Advance(default_rng(seed), num_bits)) :
            \E bB \in _random_bases(num_bits, Advance(default_rng(seed), 2 * num_bits)) :
                /\ alice_bits' = ab
                /\ alice_bases' = aB
                /\ qubits' = IF QISKIT_OK
                             THEN [k \in 1 .. num_bits |-> Prepare(ab[k], aB[k])]
                             ELSE <<>>
                /\ bob_bases' = bB
                /\ rng' = Advance(default_rng(seed), 3 * num_bits)
                /\ qc' = CopyQubit(qubits', 0, num_bits)
                /\ pc' = LoopHead(0, num_bits, eve_present)
    /\ UNCHANGED <<QISKIT_OK, num_bits, eve_present, seed, bob_bits, eve_bits,
                   eve_bases, i, sifted_alice_bits, sifted_bob_bits,
                   sample_indices, error_rate, final_key, rng2, result, prev, np_global,
                   entered, shown>>

\* lines 268-281: Eve draws a basis from rng, measures the copy in it and
\* prepares a new circuit from her bit and her basis
EveIntercept ==
    /\ pc = "eve"
    /\ \E u \in DrawSet(rng, 0), c \in Bit :
         LET eve_basis == BasisOf(u)
             eve_bit == MeasureAll(Rotate(qc, eve_basis), c)
         IN  /\ eve_bases' = Append(eve_bases, eve_basis)
             /\ eve_bits' = Append(eve_bits, eve_bit)
             /\ qc' = Prepare(eve_bit, eve_basis)
    /\ rng' = Advance(rng, 1)
    /\ pc' = "bob"
    /\ UNCHANGED <<QISKIT_OK, num_bits, eve_present, seed, alice_bits,
                   alice_bases, qubits, bob_bases, bob_bits, i,
                   sifted_alice_bits, sifted_bob_bits, sample_indices,
                   error_rate, final_key, rng2, result, prev, np_global,
                   entered, shown>>

\* lines 283-288: Bob rotates into his basis and measures; then the loop
\* goes to the next position
BobMeasure ==
    /\ pc = "bob"
    /\ \E c \in Bit :
         LET bob_bit == MeasureAll(Rotate(qc, bob_bases[i + 1]), c)
         IN  bob_bits' = Append(bob_bits, bob_bit)
    /\ i' = i + 1
    /\ qc' = CopyQubit(qubits, i + 1, num_bits)
    /\ pc' = LoopHead(i + 1, num_bits, eve_present)
    /\ UNCHANGED <<QISKIT_OK, num_bits, eve_present, seed, rng, alice_bits,
                   alice_bases, qubits, bob_bases, eve_bits, eve_bases,
                   sifted_alice_bits, sifted_bob_bits, sample_indices,
                   error_rate, final_key, rng2, result, prev, np_global,
                   entered, shown>>

\* lines 292-297: the classical approximation of one position; the coin of
\* line 297 is a draw from numpy's process-wide generator (np.random)
FallbackMeasure ==
    /\ pc = "fallback"
    /\ \E c \in Bit :
         bob_bits' = Append(bob_bits,
                            FallbackBit(alice_bits[i + 1], alice_bases[i + 1],
                                        bob_bases[i + 1], c))
    /\ np_global' = IF alice_bases[i + 1] = bob_bases[i + 1]
                     THEN np_global ELSE np_global + 1
    /\ i' = i + 1
    /\ pc' = LoopHead(i + 1, num_bits, eve_present)
    /\ UNCHANGED <<QISKIT_OK, num_bits, eve_present, seed, rng, alice_bits,
                   alice_bases, qubits, bob_bases, eve_bits, eve_bases, qc,
                   sifted_alice_bits, sifted_bob_bits, sample_indices,
                   error_rate, final_key, rng2, result, prev, entered,
                   shown>>

\* lines 299-305: Step 4
Sifting ==
    /\ pc = "sift"
    /\ sifted_alice_bits' = SiftLoop(alice_bits, alice_bases, bob_bases)
    /\ sifted_bob_bits' = SiftLoop(bob_bits, alice_bases, bob_bases)
    /\ pc' = "estimate"
    /\ UNCHANGED <<QISKIT_OK, num_bits, eve_present, seed, rng, alice_bits,
                   alice_bases, qubits, bob_bases, bob_bits, eve_bits,
                   eve_bases, i, qc, sample_indices, error_rate, final_key,
                   rng2, result, prev, np_global,
                   entered, shown>>

\* lines 307-318: Step 5; rng2.choice raises when the sample is larger than
\* the sifted key
ErrorEstimation ==
    /\ pc = "estimate"
    /\ LET L == Len(sifted_alice_bits) IN
       IF HasSifted(L)
       THEN LET sample_size == SampleSize(L)
                g2 == default_rng(Seed2(seed))
            IN  /\ rng2' = <<g2>>
                /\ IF Choice(g2, L, sample_size) = {}
                   THEN /\ pc' = "raised"
                        /\ UNCHANGED <<sample_indices, error_rate, final_key>>
                   ELSE \E idx \in Choice(g2, L, sample_size) :
                        /\ sample_indices' = idx
                        /\ error_rate' =
                             IF sample_size > 0
                             THEN Quotient(ErrorCount(idx, sifted_alice_bits,
                                                      sifted_bob_bits, 1),
                                           sample_size)
                             ELSE Zero
                        /\ final_key' = KeyLoop(sifted_alice_bits, idx)
                        /\ pc' = "return"
       ELSE /\ sample_indices' = <<>>
            /\ error_rate' = Zero
            /\ final_key' = <<>>
            /\ rng2' = <<>>
            /\ pc' = "return"
    /\ UNCHANGED <<QISKIT_OK, num_bits, eve_present, seed, rng, alice_bits,
                   alice_bases, qubits, bob_bases, bob_bits, eve_bits,
                   eve_bases, i, qc, sifted_alice_bits, sifted_bob_bits,
                   result, prev, np_global,
                   entered, shown>>

\* lines 320-323: the RunResult handed to the caller
Return ==
    /\ pc = "return"
    /\ result' = <<RunResult>>
    /\ pc' = "done"
    /\ UNCHANGED <<QISKIT_OK, num_bits, eve_present, seed, rng, alice_bits,
                   alice_bases, qubits, bob_bases, bob_bits, eve_bits,
                   eve_bases, i, qc, sifted_alice_bits, sifted_bob_bits,
                   sample_indices, error_rate, final_key, rng2, prev, np_global,
                   entered, shown>>

\* ------------------------------------------------ the Simulator page
\* st.slider("Number of raw bits", 10, 500, 64, step=2)
SliderMin == 10
SliderMax == 500
SliderStep == 2
Slider == {n \in SliderMin .. SliderMax : (n - SliderMin) % SliderStep = 0}

\* the values typed into st.number_input("Random seed (optional)", value=0,
\* step=1) that are followed: the non-negative ones up to MaxSeed
Entered == 0 .. MaxSeed

\* a seed argument that keeps the entered 0
SeedArg_keepzero(v) == v

\* seed = int(seed) if seed != 0 else None
SeedArg(v) == IF v # 0 THEN v ELSE None

\* str(bit) of one bit of the key
Digit(b) == IF b = 0 THEN "0" ELSE "1"

\* key_str = ''.join(map(str, result.final_key)), as the list of its
\* characters
KeyStr(key) == [k \in 1 .. Len(key) |-> Digit(key[k])]

\* the number of characters of the key that st.code shows
CodeLimit == 256

\* a final key block that withholds the key when a quarter or more of the
\* sample is in error
KeyOffered_threshold(r) ==
    r.final_key # <<>> /\ 4 * r.error_rate[1] < r.error_rate[2]

\* if result.final_key:
KeyOffered(r) == r.final_key # <<>>

\* lines 810-818, the final key block of a run started from the page: the
\* key is shown (its first 256 characters, then an ellipsis when it is
\* longer) and offered for download, or an error message is shown.  The
\* metrics, table and chart rendered before it (lines 771-808) only read
\* the result.
FinalKeyBlock ==
    /\ pc = "done" /\ entered # <<>> /\ shown = <<>>
    /\ LET key_str == KeyStr(result[1].final_key) IN
       shown' = IF KeyOffered(result[1])
                THEN <<[code |-> SubSeq(key_str, 1, Min(Len(key_str), CodeLimit)),
                        ellipsis |-> Len(key_str) > CodeLimit,
                        download |-> key_str, error |-> FALSE]>>
                ELSE <<[code |-> <<>>, ellipsis |-> FALSE,
                        download |-> <<>>, error |-> TRUE]>>
    /\ UNCHANGED <<QISKIT_OK, num_bits, eve_present, seed, pc, rng, alice_bits,
                   alice_bases, qubits, bob_bases, bob_bits, eve_bits,
                   eve_bases, i, qc, sifted_alice_bits, sifted_bob_bits,
                   sample_indices, error_rate, final_key, rng2, result, prev,
                   np_global, entered>>

\* a direct call of run_bb84 by code that imports the module.  A process on
\* the fallback backend is followed while its draws from the process-wide
\* generator stay within MaxDraws.
Call ==
    \E n \in -1 .. MaxBits, e \in BOOLEAN, s \in Seeds :
        /\ QISKIT_OK \/ np_global + n <= MaxDraws
        /\ run_bb84(n, e, s)
        /\ entered' = <<>> /\ shown' = <<>>

Next ==
    \/ Call
    \/ Prologue
    \/ EveIntercept
    \/ BobMeasure
    \/ FallbackMeasure
    \/ Sifting
    \/ ErrorEstimation
    \/ Return

Spec == Init /\ [][Next]_vars


\* ------------------------------------------------- long runs, steps 4-5
\* Bob's bit at position k (1-based) of a run whose simulator coins and
\* process-wide coins all came up c
BobBitWith(ab, aB, bB, eB, e, k, c) ==
    ChannelBit(QISKIT_OK, e, ab[k], aB[k], bB[k], eB[k], c, c)

\* the state of a seeded call of run_bb84 at the end of the channel loop
\* (line 298), for up to MaxLong qubits; the call was made directly or, for
\* a number of bits of the slider and a seed the page can pass, from the
\* Simulator page
InitLong ==
    /\ QISKIT_OK \in BOOLEAN
    /\ num_bits \in 0 .. MaxLong
    /\ eve_present \in BOOLEAN
    /\ seed \in IntSeeds
    /\ \E c \in Bit :
       LET g == default_rng(seed)
           n == num_bits
           ab == CHOOSE q \in _random_bits(n, g) : TRUE
           aB == CHOOSE q \in _random_bases(n, Advance(g, n)) : TRUE
           bB == CHOOSE q \in _random_bases(n, Advance(g, 2 * n)) : TRUE
           eB == [k \in 1 .. n |-> BasisOf(Stream(seed, 3 * n + k - 1))]
           eve == QISKIT_OK /\ eve_present
       IN  /\ alice_bits = ab /\ alice_bases = aB /\ bob_bases = bB
           /\ qubits = IF QISKIT_OK THEN [k \in 1 .. n |-> Prepare(ab[k], aB[k])]
                       ELSE <<>>
           /\ eve_bases = IF eve THEN eB ELSE <<>>
           /\ eve_bits = IF eve
                         THEN [k \in 1 .. n |->
                                 MeasureAll(Rotate(Prepare(ab[k], aB[k]), eB[k]), c)]
                         ELSE <<>>
           /\ bob_bits = [k \in 1 .. n |-> BobBitWith(ab, aB, bB, eB, eve_present, k, c)]
           /\ rng = Advance(g, IF eve THEN 4 * n ELSE 3 * n)
    /\ i = num_bits /\ qc = "none"
    /\ pc = "sift"
    /\ rng2 = <<>>
    /\ sifted_alice_bits = <<>> /\ sifted_bob_bits = <<>>
    /\ sample_indices = <<>> /\ error_rate = Zero /\ final_key = <<>>
    /\ result = <<>> /\ prev = <<>>
    /\ np_global = IF QISKIT_OK THEN 0
                   ELSE Cardinality({k \in 1 .. num_bits : alice_bases[k] # bob_bases[k]})
    /\ entered \in {<<>>} \cup {<<v>> : v \in {w \in Entered : /\ num_bits \in Slider
                                                            /\ SeedArg(w) = seed}}
    /\ shown = <<>>

NextLong ==
    \/ Sifting
    \/ ErrorEstimation
    \/ Return
    \/ FinalKeyBlock

SpecLong == InitLong /\ [][NextLong]_vars


\* ------------------------------------------- runs from the Simulator page
\* the numbers of raw bits chosen on the slider in the runs that are followed
UIBits == {n \in Slider : n <= SliderMin + MaxSteps * SliderStep}

\* lines 751-769: a rerun of the page's script with the Run button pressed,
\* the slider on n, the Eve toggle on e and v in the seed field: the seed
\* is converted and run_bb84 is called.  The rerun before has ended.  A
\* process on the fallback backend is followed while its draws from the
\* process-wide generator stay within MaxDraws slider minimums.
section_simulator(n, e, v) ==
    /\ (pc = "done" /\ entered # <<>>) => shown # <<>>
    /\ QISKIT_OK \/ np_global + n <= MaxDraws * SliderMin
    /\ run_bb84(n, e, SeedArg(v))
    /\ entered' = <<v>> /\ shown' = <<>>

RunButton ==
    \E n \in UIBits, e \in BOOLEAN, v \in Entered : section_simulator(n, e, v)

\* the seeds whose stream the primary generator of a run may produce: the
\* seed given, or for an unseeded generator the entropy the operating system
\* supplied (followed for the values of IntSeeds)
Entropy(s) == IF s = None THEN IntSeeds ELSE {s}

\* lines 238-297 of a run started from the page, in one step: the prologue
\* and the channel loop of a run whose primary generator produces the
\* stream of ent and whose simulator coins and process-wide coins all came
\* up c
ChannelRun ==
    /\ pc = "start" /\ entered # <<>>
    /\ \E ent \in Entropy(seed), c \in Bit :
       LET g == default_rng(ent)
           n == num_bits
           ab == CHOOSE q \in _random_bits(n, g) : TRUE
           aB == CHOOSE q \in _random_bases(n, Advance(g, n)) : TRUE
           bB == CHOOSE q \in _random_bases(n, Advance(g, 2 * n)) : TRUE
           eB == [k \in 1 .. n |-> BasisOf(Stream(ent, 3 * n + k - 1))]
           eve == QISKIT_OK /\ eve_present
       IN  /\ alice_bits' = ab /\ alice_bases' = aB /\ bob_bases' = bB
           /\ qubits' = IF QISKIT_OK THEN [k \in 1 .. n |-> Prepare(ab[k], aB[k])]
                        ELSE <<>>
           /\ eve_bases' = IF eve THEN eB ELSE <<>>
           /\ eve_bits' = IF eve
                          THEN [k \in 1 .. n |->
                                  MeasureAll(Rotate(Prepare(ab[k], aB[k]), eB[k]), c)]
                          ELSE <<>>
           /\ bob_bits' = [k \in 1 .. n |-> BobBitWith(ab, aB, bB, eB, eve_present, k, c)]
           /\ rng' = Advance(default_rng(seed), IF eve THEN 4 * n ELSE 3 * n)
           /\ np_global' = IF QISKIT_OK THEN np_global
                           ELSE np_global + Cardinality({k \in 1 .. n : aB[k] # bB[k]})
    /\ i' = num_bits /\ qc' = "none"
    /\ pc' = "sift"
    /\ UNCHANGED <<QISKIT_OK, num_bits, eve_present, seed, sifted_alice_bits,
                   sifted_bob_bits, sample_indices, error_rate, final_key,
                   rng2, result, prev, entered, shown>>

NextUI ==
    \/ RunButton
    \/ ChannelRun
    \/ Sifting
    \/ ErrorEstimation
    \/ Return
    \/ FinalKeyBlock

SpecUI == Init /\ [][NextUI]_vars


\* =============================================================== claims
AfterChannel == pc \in {"sift", "estimate", "return", "done"}
AfterSift == pc \in {"estimate", "return", "done"}
AfterEstimate == pc \in {"return", "done"}

\* C1 (as claimed): two calls of run_bb84 with the same num_bits, eve_present
\* and integer seed, in the same process (same backend), return RunResults
\* that are equal in every field.
C1_Determinism ==
    (pc = "done" /\ prev # <<>> /\ prev[1].eve_present = eve_present) =>
        result[1] = prev[1].result

\* C2 (as claimed): a call with num_bits <= 0 does not return and hands no
\* RunResult to the caller.
C2_InvalidInput == num_bits <= 0 => (pc # "done" /\ result = <<>>)

\* the coins of one pass of the channel loop: Eve's basis draw, the coin of
\* her shot, the coin of Bob's measurement
Coins == Bit \X Bit \X Bit

\* the lists of Bob's bits a run with backend q can produce from the bits
\* and bases drawn in the prologue
BobBitsOf(q) ==
    {[k \in 1 .. num_bits |->
        ChannelBit(q, eve_present, alice_bits[k], alice_bases[k], bob_bases[k],
                   BasisOf(o[k][1]), o[k][2], o[k][3])] :
     o \in [1 .. num_bits -> Coins]}

\* C3 (as claimed): from the same bits and bases, the Exact backend and the
\* Approximate backend can produce the same lists of Bob's bits, so the
\* same RunResults, with and without Eve.
C3_BackendEquivalence ==
    (pc \in {"eve", "bob", "fallback"} /\ i = 0) => BobBitsOf(TRUE) = BobBitsOf(FALSE)

\* C4: without Eve, in either backend, Alice's and Bob's sifted bits agree
\* at every sifted position and the error rate is 0.0 for every sample.
C4_NoEveFidelity ==
    ~eve_present =>
        /\ AfterSift =>
             /\ Len(sifted_alice_bits) = Len(sifted_bob_bits)
             /\ \A k \in 1 .. Len(sifted_alice_bits) :
                    sifted_alice_bits[k] = sifted_bob_bits[k]
        /\ AfterEstimate => error_rate = Zero
        /\ pc = "done" => result[1].error_rate = Zero

\* C4 witness: a returned run without Eve with a sifted position, a sampled
\* position and a position whose bases differ.
C4_Witness ==
    /\ pc = "done" /\ ~eve_present /\ QISKIT_OK
    /\ Len(sifted_alice_bits) >= 1 /\ Len(sifted_alice_bits) < num_bits
    /\ Len(sample_indices) >= 1

\* the coins of one pass for which Bob's bit differs from Alice's, in the
\* backend of this process
Mismatches(k) ==
    {o \in Coins :
        ChannelBit(QISKIT_OK, eve_present, alice_bits[k], alice_bases[k],
                   bob_bases[k], BasisOf(o[1]), o[2], o[3]) # alice_bits[k]}

\* C5 (as claimed): at a position whose bases match, with Eve a quarter of
\* the equally weighted coin outcomes give Bob a bit different from
\* Alice's, and without Eve none does.
C5_DisturbanceRate ==
    (pc \in {"eve", "bob", "fallback"} /\ alice_bases[i + 1] = bob_bases[i + 1]) =>
        IF eve_present
        THEN 4 * Cardinality(Mismatches(i + 1)) = Cardinality(Coins)
        ELSE Mismatches(i + 1) = {}


\* C6: for num_bits >= 1 the four lists of the RunResult have num_bits
\* elements each, and the two sifted lists have the same length, at most
\* num_bits.
C6_LengthInvariants ==
    num_bits >= 1 =>
        /\ AfterChannel =>
             /\ Len(alice_bits) = num_bits /\ Len(alice_bases) = num_bits
             /\ Len(bob_bits) = num_bits /\ Len(bob_bases) = num_bits
        /\ AfterSift =>
             /\ Len(sifted_alice_bits) = Len(sifted_bob_bits)
             /\ Len(sifted_alice_bits) <= num_bits
        /\ pc = "done" =>
             /\ Len(result[1].alice_bits) = num_bits
             /\ Len(result[1].alice_bases) = num_bits
             /\ Len(result[1].bob_bits) = num_bits
             /\ Len(result[1].bob_bases) = num_bits
             /\ Len(result[1].sifted_alice) = Len(result[1].sifted_bob)
             /\ Len(result[1].sifted_alice) <= num_bits

\* C6 witness: a returned run of the largest size, on the Exact backend
\* with Eve, in which some but not all positions were sifted.
C6_Witness ==
    /\ pc = "done" /\ num_bits = MaxBits /\ QISKIT_OK /\ eve_present
    /\ Len(result[1].sifted_alice) \in 1 .. num_bits - 1

\* the positions (1-based) whose bases match, and the place of such a
\* position among them
Matching == {k \in 1 .. num_bits : alice_bases[k] = bob_bases[k]}
PlaceOf(k) == Cardinality({j \in Matching : j <= k})

\* C7: the sifted lists hold exactly the bits of the positions whose bases
\* match, in increasing order of position, and their k-th entries come from
\* the same position.
C7_SiftingCorrectness ==
    AfterSift =>
        /\ Len(sifted_alice_bits) = Cardinality(Matching)
        /\ Len(sifted_bob_bits) = Cardinality(Matching)
        /\ \A k \in Matching :
             /\ sifted_alice_bits[PlaceOf(k)] = alice_bits[k]
             /\ sifted_bob_bits[PlaceOf(k)] = bob_bits[k]

\* C7 witness: a sifted run in which the first position was dropped, a
\* later one kept, and Alice's and Bob's sifted lists differ.
C7_Witness ==
    /\ pc = "estimate" /\ num_bits >= 10
    /\ 1 \notin Matching /\ num_bits \in Matching
    /\ Cardinality(Matching) >= 3
    /\ sifted_alice_bits # sifted_bob_bits

\* the sifted positions (0-based) that were not sampled, and the place of
\* such a position among them
Unsampled == {k \in 0 .. Len(sifted_alice_bits) - 1 : k \notin SeqRange(sample_indices)}
KeyPlaceOf(k) == Cardinality({j \in Unsampled : j <= k})

\* C8: final_key is sifted_alice without the sampled positions, in order;
\* its length is len(sifted_alice) - len(sample_indices).
C8_KeyExtraction ==
    AfterEstimate =>
        /\ Len(final_key) = Len(sifted_alice_bits) - Len(sample_indices)
        /\ Len(final_key) = Cardinality(Unsampled)
        /\ \A k \in Unsampled : final_key[KeyPlaceOf(k)] = sifted_alice_bits[k + 1]

\* C8 witness: a run with several sampled positions, among them position 0
\* or a later one, whose key has both bit values.
C8_Witness ==
    /\ pc = "return" /\ Len(sample_indices) >= 2
    /\ 0 \in SeqRange(final_key) /\ 1 \in SeqRange(final_key)
    /\ \E k \in SeqRange(sample_indices) : k + 1 < Len(sifted_alice_bits)

\* C9: the number of sampled indices is 0 for an empty sifted key and
\* min(max(1, floor(L/5)), 10) for a sifted key of length L >= 1.
C9_SampleSize ==
    AfterEstimate =>
        LET L == Len(sifted_alice_bits)
            fifth == L \div 5
            atLeastOne == IF fifth < 1 THEN 1 ELSE fifth
        IN  Len(sample_indices) =
              IF L = 0 THEN 0 ELSE IF atLeastOne > 10 THEN 10 ELSE atLeastOne

\* C9 witness: a sifted key long enough for the cap of 10 to apply.
C9_Witness ==
    /\ pc = "done" /\ Len(sifted_alice_bits) \div 5 > 10
    /\ Len(sample_indices) = 10

\* C10: the sampled indices are distinct and lie in [0, len(sifted_alice));
\* the sample is never larger than the sifted key, so the draw never fails.
C10_SamplingValidity ==
    /\ AfterEstimate =>
         /\ Cardinality(SeqRange(sample_indices)) = Len(sample_indices)
         /\ \A k \in 1 .. Len(sample_indices) :
                sample_indices[k] >= 0 /\ sample_indices[k] < Len(sifted_alice_bits)
         /\ Len(sample_indices) <= Len(sifted_alice_bits)
    /\ pc = "raised" => (num_bits < 0 /\ rng2 = <<>>)

\* C10 witness: a sample of several indices drawn from a sifted key.
C10_Witness ==
    /\ pc = "done" /\ Len(sample_indices) >= 5
    /\ Len(sample_indices) < Len(sifted_alice_bits)
    /\ rng2 # <<>>


\* the sampled positions (0-based) at which Alice's and Bob's sifted bits
\* differ
SampledErrors ==
    {k \in SeqRange(sample_indices) : sifted_alice_bits[k + 1] # sifted_bob_bits[k + 1]}

\* C11: error_rate is the number of sampled positions at which the sifted
\* lists differ divided by the sample size, 0.0 for an empty sample; it
\* lies in [0.0, 1.0].
C11_ErrorRateEstimator ==
    AfterEstimate =>
        /\ error_rate[2] > 0
        /\ 0 <= error_rate[1] /\ error_rate[1] <= error_rate[2]
        /\ IF Len(sample_indices) = 0
           THEN error_rate = Zero
           ELSE error_rate[1] * Len(sample_indices)
                  = Cardinality(SampledErrors) * error_rate[2]

\* C11 witness: a run whose sample holds errors and agreements and whose
\* unsampled sifted positions hold more errors than the sample does.
C11_Witness ==
    /\ pc = "done"
    /\ error_rate[1] > 0 /\ error_rate[1] < error_rate[2]
    /\ Cardinality({j \in 1 .. Len(sifted_alice_bits) :
                      sifted_alice_bits[j] # sifted_bob_bits[j]})
         > Len(sample_indices)

\* C12: with an empty sifted key run_bb84 does not fail and returns an
\* empty sample, error_rate 0.0 and an empty final key.
C12_SamplingDegenerate ==
    Len(sifted_alice_bits) = 0 =>
        /\ AfterEstimate =>
             sample_indices = <<>> /\ error_rate = Zero /\ final_key = <<>>
        /\ pc = "done" =>
             /\ result[1].sample_indices = <<>>
             /\ result[1].error_rate = Zero
             /\ result[1].final_key = <<>>
        /\ pc = "raised" => num_bits < 0

\* C12 witness: a returned run of the largest size in which no position had
\* matching bases.
C12_Witness ==
    /\ pc = "done" /\ num_bits = MaxBits
    /\ \A k \in 1 .. num_bits : alice_bases[k] # bob_bases[k]
    /\ result[1].sifted_alice = <<>> /\ result[1].final_key = <<>>


\* C13: a run with the same integer seed and the same num_bits as the run
\* before it has the same alice_bits, alice_bases and bob_bases, and, when
\* Eve is enabled in both, the same list of Eve's bases, whatever the
\* measurements returned.
C13_SeededProtocolRandomness ==
    (prev # <<>> /\ AfterChannel) =>
        /\ alice_bits = prev[1].result.alice_bits
        /\ alice_bases = prev[1].result.alice_bases
        /\ bob_bases = prev[1].result.bob_bases
        /\ (eve_present /\ prev[1].eve_present) => eve_bases = prev[1].eve_bases

\* C13 witness: two runs in a row with the same seed, both with Eve on the
\* Exact backend, whose measurements gave Bob different bits.
C13_Witness ==
    /\ pc = "done" /\ prev # <<>> /\ QISKIT_OK
    /\ eve_present /\ prev[1].eve_present
    /\ num_bits = MaxBits /\ Len(eve_bases) = num_bits
    /\ bob_bits # prev[1].result.bob_bits

\* C14: the sampling step draws from a generator of its own, seeded seed + 1
\* (unseeded when seed is None); it leaves the primary generator and the
\* values drawn from it as they were.
C14_StreamSeparation ==
    [][pc = "estimate" =>
         /\ rng' = rng
         /\ alice_bits' = alice_bits /\ alice_bases' = alice_bases
         /\ bob_bases' = bob_bases /\ eve_bases' = eve_bases
         /\ Len(sample_indices') > 0 => rng2' # <<>>
         /\ rng2' # <<>> =>
              /\ rng2'[1].seed = (IF seed = None THEN None ELSE seed + 1)
              /\ rng2'[1] # rng]_vars

\* C14 witness: a seeded run with Eve on the Exact backend (four draws per
\* qubit from the primary generator) that has drawn its sample.
C14_Witness ==
    /\ pc = "return" /\ seed # None /\ rng2 # <<>>
    /\ num_bits = MaxBits /\ rng.pos = 4 * num_bits
    /\ Len(sample_indices) >= 1


\* C15 (as claimed): no step of run_bb84 reads or writes mutable
\* process-wide state; here, the state of numpy's process-wide generator
\* stays as it was.
C15_NoProcessState == [][np_global' = np_global]_vars

\* the fields of the returned record
ResultFields ==
    {"alice_bits", "alice_bases", "bob_bits", "bob_bases", "sifted_alice",
     "sifted_bob", "final_key", "error_rate", "sample_indices"}

\* C16: without Qiskit run_bb84 raises no error and every qubit of the run
\* goes through the fallback branch; with Qiskit every qubit goes through
\* the Exact branch; the RunResult has the same fields in both cases.
C16_BackendFallback ==
    /\ pc \in {"eve", "bob"} => QISKIT_OK
    /\ pc = "fallback" => ~QISKIT_OK
    /\ ~QISKIT_OK =>
         /\ pc = "raised" => num_bits < 0
         /\ qubits = <<>> /\ eve_bits = <<>> /\ qc = "none"
    /\ (QISKIT_OK /\ AfterChannel) => Len(qubits) = num_bits
    /\ pc = "done" => DOMAIN result[1] = ResultFields

\* C16 witness: a returned run of the largest size on the fallback backend,
\* called with Eve enabled.
C16_Witness ==
    /\ pc = "done" /\ ~QISKIT_OK /\ num_bits = MaxBits /\ eve_present
    /\ Len(result[1].bob_bits) = num_bits
    /\ np_global > 0


\* the bit and the basis from which the state Bob measures at position
\* i + 1 was prepared: Eve's when she intercepts, else Alice's
PreparedBit == IF eve_present /\ QISKIT_OK THEN eve_bits[i + 1] ELSE alice_bits[i + 1]
PreparedBasis == IF eve_present /\ QISKIT_OK THEN eve_bases[i + 1] ELSE alice_bases[i + 1]

\* the measurement law for the set out of possible outcomes
Law(out, pbit, pbasis, mbasis) == IF pbasis = mbasis THEN out = {pbit} ELSE out = Bit

\* C17: in both backends a measurement in the basis of preparation always
\* returns the encoded bit, and a measurement in the other basis can
\* return 0 and can return 1, whatever the encoded bit.
C17_MeasurementLaw ==
    /\ pc = "bob" =>
         Law({MeasureAll(Rotate(qc, bob_bases[i + 1]), c) : c \in Bit},
             PreparedBit, PreparedBasis, bob_bases[i + 1])
    /\ pc = "eve" =>
         \A eb \in Bases :
             Law({MeasureAll(Rotate(qc, eb), c) : c \in Bit},
                 alice_bits[i + 1], alice_bases[i + 1], eb)
    /\ pc = "fallback" =>
         Law({FallbackBit(alice_bits[i + 1], alice_bases[i + 1], bob_bases[i + 1], c) :
                c \in Bit},
             alice_bits[i + 1], alice_bases[i + 1], bob_bases[i + 1])

\* C17 witness: Bob about to measure, in her basis, the state Eve prepared
\* for the second qubit in a basis other than Alice's.
C17_Witness ==
    /\ pc = "bob" /\ eve_present /\ i = 1
    /\ eve_bases[2] # alice_bases[2]
    /\ bob_bases[2] = eve_bases[2]
    /\ eve_bits[2] # alice_bits[2]

\* C18 (as claimed): with eve_present every qubit is measured and
\* re-prepared by Eve before Bob measures it, so Bob never has more bits
\* than Eve and after the channel loop Eve has a bit for every qubit.
C18_InterceptEvery ==
    eve_present =>
        /\ Len(bob_bits) <= Len(eve_bits)
        /\ Len(eve_bits) = Len(eve_bases)
        /\ AfterChannel => Len(eve_bits) = num_bits
        /\ pc = "bob" => qc = Prepare(eve_bits[i + 1], eve_bases[i + 1])

\* C19: with eve_present, at a position whose bases match Bob's bit differs
\* from Alice's only where Eve's basis differs from Alice's.
C19_DisturbanceOnlyWrongBasis ==
    eve_present =>
        \A k \in 1 .. Len(bob_bits) :
            (alice_bases[k] = bob_bases[k] /\ bob_bits[k] # alice_bits[k]) =>
                (k <= Len(eve_bases) /\ eve_bases[k] # alice_bases[k])

\* C19 witness: a returned run with Eve in which one sifted position was
\* measured by Eve in Alice's basis and another, measured in the other
\* basis, gave Bob the wrong bit.
C19_Witness ==
    /\ pc = "done" /\ eve_present /\ QISKIT_OK
    /\ \E k, j \in 1 .. num_bits :
         /\ alice_bases[k] = bob_bases[k] /\ eve_bases[k] # alice_bases[k]
         /\ bob_bits[k] # alice_bits[k]
         /\ alice_bases[j] = bob_bases[j] /\ eve_bases[j] = alice_bases[j]
         /\ bob_bits[j] = alice_bits[j]

\* C20 (as claimed): a measurement in a basis other than that of the
\* measured state takes its outcome from the primary generator rng, at the
\* time of the measurement.
C20_MeasurementFromPrimary ==
    [][/\ (pc \in {"bob", "fallback"} /\ bob_bases[i + 1] # PreparedBasis) =>
            /\ rng' = Advance(rng, 1)
            /\ bob_bits'[i + 1] \in DrawSet(rng, 0)
       /\ (pc = "eve" /\ eve_bases'[i + 1] # alice_bases[i + 1]) =>
            /\ rng' = Advance(rng, 2)
            /\ eve_bits'[i + 1] \in DrawSet(rng, 1)]_vars

\* C21 (as claimed): for a non-empty sifted key the number of sampled
\* positions is at most 20% of the sifted length and at most 10.
C21_SampleBound ==
    (AfterEstimate /\ Len(sifted_alice_bits) > 0) =>
        /\ SampleDiv * Len(sample_indices) <= Len(sifted_alice_bits)
        /\ Len(sample_indices) <= SampleCap

\* C22: run_bb84 returns the final key whatever the error rate is, the
\* final key is non-empty exactly when the sifted key has at least 2 bits,
\* and the Simulator page shows the key and offers it for download exactly
\* when it is non-empty, also when error_rate is 1.0.
C22_NoAbort ==
    /\ AfterEstimate => (final_key # <<>> <=> Len(sifted_alice_bits) >= 2)
    /\ pc = "done" =>
         /\ result[1].final_key = final_key
         /\ Len(result[1].final_key)
              = Len(result[1].sifted_alice) - Len(result[1].sample_indices)
    /\ shown # <<>> =>
         /\ shown[1].error <=> result[1].final_key = <<>>
         /\ ~shown[1].error =>
              /\ Len(shown[1].download) = Len(result[1].final_key)
              /\ \A k \in 1 .. Len(result[1].final_key) :
                     shown[1].download[k]
                       = (IF result[1].final_key[k] = 1 THEN "1" ELSE "0")
              /\ shown[1].code
                   = SubSeq(shown[1].download, 1,
                            IF Len(shown[1].download) > 256 THEN 256
                            ELSE Len(shown[1].download))

\* C22 witness: the page shows and offers the key of a run in which every
\* sampled position was in error (error_rate 1.0).
C22_Witness ==
    /\ shown # <<>> /\ ~shown[1].error
    /\ result[1].error_rate = <<1, 1>>
    /\ Len(shown[1].download) >= 2

\* what a seeded run of n qubits draws from the primary generator in the
\* prologue: Alice's bits, Alice's bases, Bob's bases
SeededBits(s, n) == [k \in 1 .. n |-> Stream(s, k - 1)]
SeededBases(s, n, off) == [k \in 1 .. n |-> BasisOf(Stream(s, off + k - 1))]

\* C23: for an integer seed and num_bits, sifted_alice, sample_indices and
\* final_key depend on the seed and num_bits alone: they are the same as in
\* the run before with the same seed and num_bits, whatever eve_present was
\* in the two runs and whatever the measurements returned (of the other
\* fields only bob_bits, sifted_bob and error_rate vary), and they are the
\* sifting, the seed + 1 sample and the key of the seeded draws in either
\* backend.
C23_KeyIndependence ==
    /\ (pc = "done" /\ prev # <<>>) =>
         /\ result[1].sifted_alice = prev[1].result.sifted_alice
         /\ result[1].sample_indices = prev[1].result.sample_indices
         /\ result[1].final_key = prev[1].result.final_key
         /\ result[1].alice_bits = prev[1].result.alice_bits
         /\ result[1].alice_bases = prev[1].result.alice_bases
         /\ result[1].bob_bases = prev[1].result.bob_bases
    /\ (pc = "done" /\ seed # None) =>
         LET sa == SiftLoop(SeededBits(seed, num_bits),
                            SeededBases(seed, num_bits, num_bits),
                            SeededBases(seed, num_bits, 2 * num_bits))
             unsampled == {k \in 1 .. Len(sa) :
                             (k - 1) \notin SeqRange(result[1].sample_indices)}
         IN  /\ result[1].sifted_alice = sa
             /\ sa # <<>> =>
                  result[1].sample_indices
                    \in Choice([seed |-> seed + 1, pos |-> 0], Len(sa),
                               Len(result[1].sample_indices))
             /\ Len(result[1].final_key) = Cardinality(unsampled)
             /\ \A k \in unsampled :
                    result[1].final_key[Cardinality({j \in unsampled : j <= k})]
                      = sa[k]

\* C23 witness: two runs in a row with the same seed, one with Eve and one
\* without, that differ in bob_bits, sifted_bob and error_rate and have a
\* non-empty final key.
C23_Witness ==
    /\ pc = "done" /\ prev # <<>> /\ QISKIT_OK
    /\ eve_present # prev[1].eve_present
    /\ result[1].bob_bits # prev[1].result.bob_bits
    /\ result[1].sifted_bob # prev[1].result.sifted_bob
    /\ result[1].error_rate # prev[1].result.error_rate
    /\ result[1].final_key # <<>>

\* C24: the Simulator page passes seed = None to run_bb84 exactly when the
\* value in the seed field is 0 and the entered integer otherwise; a run
\* started with 0 in the field draws from unseeded generators (its draws are
\* not determined), a run started with another value from seeded ones.
C24_SeedHandling ==
    entered # <<>> =>
        /\ seed = None <=> entered[1] = 0
        /\ entered[1] # 0 => seed = entered[1]
        /\ pc = "start" =>
             (Cardinality(_random_bits(1, default_rng(seed))) > 1 <=> entered[1] = 0)
        /\ AfterChannel => (rng.seed = None <=> entered[1] = 0)
        /\ rng2 # <<>> => (rng2[1].seed = None <=> entered[1] = 0)

\* C24 witness: a run started with 0 in the seed field has returned after
\* drawing its sample from an unseeded generator, and its key is shown.
C24_Witness ==
    /\ pc = "done" /\ entered = <<0>> /\ seed = None
    /\ rng2 # <<>> /\ rng2[1].seed = None
    /\ shown # <<>> /\ ~shown[1].error

====
